---- MODULE Spec2Model ----
(***************************************************************************)
(* PDFPageExtractor (pdf_craft/pdf/extractor.py): the per-page pipeline    *)
(* extract -> _convert_to_blocks -> _texts_range -> paragraph shape flags. *)
(*                                                                         *)
(* A Rectangle is kept as the x coordinates of its four corners plus the   *)
(* value of its size[1] (the height).  Coordinates and heights are         *)
(* integers; the quotients the code forms (sum / count, (a + b) / 2) are   *)
(* kept as exact reduced fractions, which order and compare as the floats  *)
(* of the code do for these magnitudes.                                    *)
(***************************************************************************)
EXTENDS Integers, Sequences, FiniteSets

VARIABLES layouts, pc, store, blocks, page_range, bi, base

vars == <<layouts, pc, store, blocks, page_range, bi, base>>

(***************************************************************************)
(* Bounds of the input pages.                                              *)
(***************************************************************************)
MaxLayouts == 4
MaxFrags == 2
MaxPageSize == 4
MaxHeight == 1

(***************************************************************************)
(* LayoutClass of doc_page_extractor, plus one tag the if/elif chain of    *)
(* _convert_to_blocks does not know.                                       *)
(***************************************************************************)
LayoutClass ==
  {"TITLE", "PLAIN_TEXT", "ABANDON", "FIGURE", "FIGURE_CAPTION", "TABLE",
   "TABLE_CAPTION", "TABLE_FOOTNOTE", "ISOLATE_FORMULA", "FORMULA_CAPTION",
   "UNKNOWN"}

TextKind == {"TITLE", "PLAIN_TEXT", "ABANDON"}

(***************************************************************************)
(* Exact quotients.                                                        *)
(***************************************************************************)
RECURSIVE Gcd(_, _)
Gcd(a, b) == IF b = 0 THEN a ELSE Gcd(b, a % b)

Abs(a) == IF a < 0 THEN -a ELSE a

\* n / d for d > 0, reduced
Div(n, d) ==
  LET g == Gcd(Abs(n), d)
  IN  [num |-> n \div g, den |-> d \div g]

\* a - x for a quotient a and an integer x
SubInt(a, x) == Div(a.num - x * a.den, a.den)

\* x - a for an integer x and a quotient a
IntSub(x, a) == Div(x * a.den - a.num, a.den)

\* variant of Gt that also holds at equality
Ge(a, b) == a.num * b.den >= b.num * a.den

Gt(a, b) == a.num * b.den > b.num * a.den

\* variant of Lt that also holds at equality
Le(a, b) == a.num * b.den =< b.num * a.den

Lt(a, b) == a.num * b.den < b.num * a.den

Zero == Div(0, 1)

(***************************************************************************)
(* Records.                                                                *)
(***************************************************************************)
Rectangle(l1, l2, r1, r2, h) ==
  [ltx |-> l1, lbx |-> l2, rtx |-> r1, rbx |-> r2, height |-> h]

OCRFragment(t, r, rc) == [text |-> t, rank |-> r, rect |-> rc]

Text(c, r, rc) == [content |-> c, rank |-> r, rect |-> rc]

Layout(c, rc, fs) == [cls |-> c, rect |-> rc, fragments |-> fs]

TextBlock(rc, k, ts) ==
  [type |-> "TextBlock", rect |-> rc, kind |-> k, texts |-> ts,
   has_paragraph_indentation |-> FALSE, last_line_touch_end |-> FALSE]

\* clip(result, layout) cuts the image out of the page at the layout's rect
clip(layout) == <<"clip", layout.rect>>

AssetBlock(rc, img, ts) ==
  [type |-> "AssetBlock", rect |-> rc, image |-> img, texts |-> ts]

(***************************************************************************)
(* _convert_to_text                                                        *)
(***************************************************************************)
\* variant of _convert_to_text that hands the fragments back last first
_convert_to_text_reversed(fragments) ==
  [j \in 1..Len(fragments) |->
     Text(fragments[Len(fragments) + 1 - j].text,
          fragments[Len(fragments) + 1 - j].rank,
          fragments[Len(fragments) + 1 - j].rect)]

_convert_to_text(fragments) ==
  [j \in 1..Len(fragments) |->
     Text(fragments[j].text, fragments[j].rank, fragments[j].rect)]

(***************************************************************************)
(* _convert_to_blocks: previous_block and one iteration of the loop.       *)
(* previous_block gives the index in store of the block it returns, 0 for  *)
(* None.                                                                   *)
(***************************************************************************)
\* variant of previous_block_from that searches on past every entry of
\* another class
RECURSIVE previous_block_past_all(_, _, _)
previous_block_past_all(st, cls, k) ==
  IF k = 0 THEN 0
  ELSE IF cls = st[k].cls THEN k
  ELSE previous_block_past_all(st, cls, k - 1)

RECURSIVE previous_block_from(_, _, _)
previous_block_from(st, cls, k) ==
  IF k = 0 THEN 0
  ELSE IF cls = st[k].cls THEN k
  ELSE IF cls # "ABANDON" THEN 0
  ELSE previous_block_from(st, cls, k - 1)

\* variant of previous_block that takes the first entry of the class
previous_block_first(st, cls) ==
  IF \E k \in 1..Len(st) : st[k].cls = cls
  THEN CHOOSE k \in 1..Len(st) :
         st[k].cls = cls /\ \A n \in 1..(k - 1) : st[n].cls # cls
  ELSE 0

previous_block(st, cls) == previous_block_from(st, cls, Len(st))

\* variant of Extend that keeps a caption without target as a block of its
\* own
Extend_standalone(st, k, layout) ==
  IF k = 0
  THEN Append(st, [cls |-> layout.cls, block |->
         TextBlock(layout.rect, "PLAIN_TEXT", _convert_to_text(layout.fragments))])
  ELSE [st EXCEPT ![k].block.texts = @ \o _convert_to_text(layout.fragments)]

\* variant of Extend that puts the caption before the texts already there
Extend_in_front(st, k, layout) ==
  IF k = 0 THEN st
  ELSE [st EXCEPT ![k].block.texts = _convert_to_text(layout.fragments) \o @]

Extend(st, k, layout) ==
  IF k = 0 THEN st
  ELSE [st EXCEPT ![k].block.texts = @ \o _convert_to_text(layout.fragments)]

ConvertLayout(st, layout) ==
  LET cls == layout.cls
  IN  IF cls = "TITLE" THEN
        Append(st, [cls |-> cls, block |->
          TextBlock(layout.rect, "TITLE", _convert_to_text(layout.fragments))])
      ELSE IF cls = "PLAIN_TEXT" THEN
        Append(st, [cls |-> cls, block |->
          TextBlock(layout.rect, "PLAIN_TEXT", _convert_to_text(layout.fragments))])
      ELSE IF cls = "ABANDON" THEN
        Append(st, [cls |-> cls, block |->
          TextBlock(layout.rect, "ABANDON", _convert_to_text(layout.fragments))])
      ELSE IF cls = "FIGURE" \/ cls = "TABLE" \/ cls = "ISOLATE_FORMULA" THEN
        Append(st, [cls |-> cls, block |->
          AssetBlock(layout.rect, clip(layout), <<>>)])
      ELSE IF cls = "FIGURE_CAPTION" THEN
        Extend(st, previous_block(st, "FIGURE"), layout)
      ELSE IF cls = "TABLE_CAPTION" \/ cls = "TABLE_FOOTNOTE" THEN
        Extend(st, previous_block(st, "TABLE"), layout)
      ELSE IF cls = "FORMULA_CAPTION" THEN
        Extend(st, previous_block(st, "ISOLATE_FORMULA"), layout)
      ELSE st

StoreBlocks(st) == [k \in 1..Len(st) |-> st[k].block]

RECURSIVE ConvertPrefix(_, _)
ConvertPrefix(ls, n) ==
  IF n = 0 THEN <<>> ELSE ConvertLayout(ConvertPrefix(ls, n - 1), ls[n])

_convert_to_blocks(ls) == StoreBlocks(ConvertPrefix(ls, Len(ls)))

(***************************************************************************)
(* _texts_range.  x1 and x2 start at +inf and -inf: <<>> stands for the    *)
(* infinity, <<x>> for the float x.                                        *)
(***************************************************************************)
MinX(x1, x) == IF x1 = <<>> THEN <<x>> ELSE IF x < x1[1] THEN <<x>> ELSE x1

MaxX(x2, x) == IF x2 = <<>> THEN <<x>> ELSE IF x > x2[1] THEN <<x>> ELSE x2

\* Rectangle.__iter__: the x of the four corner points
RectXs(rect) == <<rect.ltx, rect.lbx, rect.rbx, rect.rtx>>

RECURSIVE ScanPoints(_, _, _)
ScanPoints(acc, xs, k) ==
  IF k > Len(xs) THEN acc
  ELSE ScanPoints([acc EXCEPT !.x1 = MinX(@, xs[k]), !.x2 = MaxX(@, xs[k])],
                  xs, k + 1)

RECURSIVE ScanTexts(_, _, _)
ScanTexts(acc, texts, k) ==
  IF k > Len(texts) THEN acc
  ELSE ScanTexts(
         ScanPoints([acc EXCEPT !.sum_lines_height = @ + texts[k].rect.height,
                                !.texts_count = @ + 1],
                    RectXs(texts[k].rect), 1),
         texts, k + 1)

Range(m, a, b) == [mean_line_height |-> m, x1 |-> a, x2 |-> b]

\* variant of ScanBlocks that counts the ABANDON blocks too
RECURSIVE ScanBlocks_with_abandon(_, _, _)
ScanBlocks_with_abandon(acc, bs, k) ==
  IF k > Len(bs) THEN acc
  ELSE IF bs[k].type # "TextBlock" THEN ScanBlocks_with_abandon(acc, bs, k + 1)
  ELSE ScanBlocks_with_abandon(ScanTexts(acc, bs[k].texts, 1), bs, k + 1)

RECURSIVE ScanBlocks(_, _, _)
ScanBlocks(acc, bs, k) ==
  IF k > Len(bs) THEN acc
  ELSE IF bs[k].type # "TextBlock" THEN ScanBlocks(acc, bs, k + 1)
  ELSE IF bs[k].kind = "ABANDON" THEN ScanBlocks(acc, bs, k + 1)
  ELSE ScanBlocks(ScanTexts(acc, bs[k].texts, 1), bs, k + 1)

_texts_range(bs) ==
  LET acc == ScanBlocks([sum_lines_height |-> 0, texts_count |-> 0,
                         x1 |-> <<>>, x2 |-> <<>>], bs, 1)
  IN  IF acc.texts_count = 0 THEN Range(Zero, 0, 0)
      ELSE Range(Div(acc.sum_lines_height, acc.texts_count), acc.x1[1], acc.x2[1])

(***************************************************************************)
(* extract: the body of the loop over the blocks of one page.              *)
(***************************************************************************)
Skipped(block) ==
  IF block.type # "TextBlock" THEN TRUE ELSE block.kind = "ABANDON"

\* variant of Baseline that measures every block against itself
Baseline_local(block, range) == _texts_range(<<block>>)

Baseline(block, range) ==
  IF Len(block.texts) = 1 THEN range ELSE _texts_range(<<block>>)

first_delta_x(block, x1) ==
  LET first_text == block.texts[1]
  IN  SubInt(Div(first_text.rect.ltx + first_text.rect.lbx, 2), x1)

last_delta_x(block, x2) ==
  LET last_text == block.texts[Len(block.texts)]
  IN  IntSub(x2, Div(last_text.rect.rtx + last_text.rect.rbx, 2))

Indented(block, b) == Gt(first_delta_x(block, b.x1), b.mean_line_height)

TouchEnd(block, b) == Lt(last_delta_x(block, b.x2), b.mean_line_height)

(***************************************************************************)
(* The regions the upstream extractor hands over.  `layouts` holds the     *)
(* regions of the page the loop of _convert_to_blocks has read so far; the *)
(* list ends where the extractor ends it.                                  *)
(***************************************************************************)
\* Assembly pages: every class in every position; the fragments of a region
\* are told apart by their text, and their number and geometry follow from
\* the region's position on the page.
NumFrags(n) == n % (MaxFrags + 1)

PosRect(n, j) == Rectangle(n, n, n + j, n + j, j)

PosFragments(n) ==
  [j \in 1..NumFrags(n) |-> OCRFragment(<<n, j>>, j, PosRect(n, j))]

AssemblyRegions(read) ==
  IF Len(read) >= MaxLayouts THEN {}
  ELSE LET n == Len(read) + 1
       IN  {Layout(c, PosRect(n, 0), PosFragments(n)) : c \in LayoutClass}

\* Shape pages: text regions whose lines vary in geometry.  A left edge and
\* a right edge are the x of their two corners; an edge of a line without
\* height is a point.
Lefts == {<<0, 0>>, <<1, 1>>, <<0, 1>>}

Rights == {<<2, 2>>, <<3, 2>>}

Lines ==
  {Rectangle(l[1], l[2], r[1], r[2], h) : l \in Lefts, r \in Rights,
                                          h \in 0..MaxHeight}

Rects == {rc \in Lines : rc.height = 0 => rc.ltx = rc.lbx /\ rc.rtx = rc.rbx}

RECURSIVE PageSize(_, _)
PageSize(ls, n) ==
  IF n = 0 THEN 0 ELSE PageSize(ls, n - 1) + 1 + Len(ls[n].fragments)

RECURSIVE FragmentLists(_)
FragmentLists(n) ==
  IF n = 0 THEN {<<>>}
  ELSE LET shorter == FragmentLists(n - 1)
       IN  shorter \cup
           {Append(fs, OCRFragment("line", 1, rc)) :
              fs \in {f \in shorter : Len(f) = n - 1}, rc \in Rects}

ShapeRegions(read) ==
  LET room == MaxPageSize - PageSize(read, Len(read)) - 1
  IN  IF room < 0 THEN {}
      ELSE {Layout(c, PosRect(Len(read) + 1, 0), fs) :
              c \in {"PLAIN_TEXT", "ABANDON"}, fs \in FragmentLists(room)}

Init ==
  /\ layouts = <<>>
  /\ pc = "convert"
  /\ store = <<>>
  /\ blocks = <<>>
  /\ page_range = Range(Zero, 0, 0)
  /\ bi = 1
  /\ base = Range(Zero, 0, 0)

(***************************************************************************)
(* Actions.                                                                *)
(***************************************************************************)
\* one iteration of `for layout in layouts`
Convert(layout) ==
  /\ layouts' = Append(layouts, layout)
  /\ store' = ConvertLayout(store, layout)
  /\ UNCHANGED <<pc, blocks, page_range, bi, base>>

ConvertStep ==
  /\ pc = "convert"
  /\ \E layout \in AssemblyRegions(layouts) : Convert(layout)

ConvertShapeStep ==
  /\ pc = "convert"
  /\ \E layout \in ShapeRegions(layouts) : Convert(layout)

\* `return [block for _, block in store]`, then `page_range = ...`
PageRange ==
  /\ pc = "convert"
  /\ blocks' = StoreBlocks(store)
  /\ page_range' = _texts_range(StoreBlocks(store))
  /\ pc' = "classify"
  /\ bi' = 1
  /\ UNCHANGED <<layouts, store, base>>

\* `continue` for an AssetBlock or an ABANDON block
ClassifySkip ==
  /\ pc = "classify"
  /\ bi <= Len(blocks)
  /\ Skipped(blocks[bi])
  /\ bi' = bi + 1
  /\ UNCHANGED <<layouts, pc, store, blocks, page_range, base>>

\* block.texts[0] of a block without texts raises IndexError
ClassifyRaise ==
  /\ pc = "classify"
  /\ bi <= Len(blocks)
  /\ ~Skipped(blocks[bi])
  /\ Len(blocks[bi].texts) = 0
  /\ base' = Baseline(blocks[bi], page_range)
  /\ pc' = "raised"
  /\ UNCHANGED <<layouts, store, blocks, page_range, bi>>

ClassifyBlock ==
  /\ pc = "classify"
  /\ bi <= Len(blocks)
  /\ ~Skipped(blocks[bi])
  /\ Len(blocks[bi].texts) > 0
  /\ base' = Baseline(blocks[bi], page_range)
  /\ blocks' = [blocks EXCEPT
       ![bi].has_paragraph_indentation = Indented(blocks[bi], base'),
       ![bi].last_line_touch_end = TouchEnd(blocks[bi], base')]
  /\ bi' = bi + 1
  /\ UNCHANGED <<layouts, pc, store, page_range>>

\* `yield blocks`
Yield ==
  /\ pc = "classify"
  /\ bi > Len(blocks)
  /\ pc' = "yielded"
  /\ UNCHANGED <<layouts, store, blocks, page_range, bi, base>>

\* the caller asks for the next page: back to the head of the loop, where
\* nothing of the page just yielded is read again
Resume ==
  /\ pc = "yielded"
  /\ layouts' = <<>>
  /\ pc' = "convert"
  /\ store' = <<>>
  /\ blocks' = <<>>
  /\ page_range' = Range(Zero, 0, 0)
  /\ bi' = 1
  /\ base' = Range(Zero, 0, 0)

Next ==
  \/ ConvertStep
  \/ PageRange
  \/ ClassifySkip
  \/ ClassifyRaise
  \/ ClassifyBlock
  \/ Yield
  \/ Resume

Spec == Init /\ [][Next]_vars

NextShape ==
  \/ ConvertShapeStep
  \/ PageRange
  \/ ClassifySkip
  \/ ClassifyRaise
  \/ ClassifyBlock
  \/ Yield
  \/ Resume

SpecShape == Init /\ [][NextShape]_vars

(***************************************************************************)
(* Vocabulary of the properties.                                           *)
(***************************************************************************)
TextClasses == {"TITLE", "PLAIN_TEXT", "ABANDON"}

AssetClasses == {"FIGURE", "TABLE", "ISOLATE_FORMULA"}

CaptionClasses ==
  {"FIGURE_CAPTION", "TABLE_CAPTION", "TABLE_FOOTNOTE", "FORMULA_CAPTION"}

Target(cls) ==
  IF cls = "FIGURE_CAPTION" THEN "FIGURE"
  ELSE IF cls \in {"TABLE_CAPTION", "TABLE_FOOTNOTE"} THEN "TABLE"
  ELSE IF cls = "FORMULA_CAPTION" THEN "ISOLATE_FORMULA"
  ELSE "none"

MakesBlock(layout) == layout.cls \in TextClasses \cup AssetClasses

\* the regions that get a block of their own, in input order
Kept(ls) == SelectSeq(ls, MakesBlock)

\* position in the output of the block of region j
BlockOf(ls, j) == Cardinality({m \in 1..j : MakesBlock(ls[m])})

\* the page is past _convert_to_blocks
Assembled == pc \in {"classify", "yielded", "raised"}

\* the loop of _convert_to_blocks has just handled region Len(layouts)
JustRead == pc = "convert" /\ Len(layouts) >= 1

LastRead == layouts[Len(layouts)]

\* regions j+1 .. k are captions that all aim at the class of region j
CaptionRun(ls, j, k) ==
  /\ ls[j].cls \in AssetClasses
  /\ j < k
  /\ \A m \in (j + 1)..k : Target(ls[m].cls) = ls[j].cls

\* the fragments of a region as Texts: content, rank and rect copied 1:1
AsTexts(layout) ==
  [n \in 1..Len(layout.fragments) |->
     [content |-> layout.fragments[n].text,
      rank |-> layout.fragments[n].rank,
      rect |-> layout.fragments[n].rect]]

\* the Texts of regions j+1 .. k, in region order
RECURSIVE RunTexts(_, _, _)
RunTexts(ls, j, k) ==
  IF k <= j THEN <<>> ELSE RunTexts(ls, j, k - 1) \o AsTexts(ls[k])

IsPrefix(p, q) == Len(p) <= Len(q) /\ SubSeq(q, 1, Len(p)) = p

RemoveAt(ls, k) == SubSeq(ls, 1, k - 1) \o SubSeq(ls, k + 1, Len(ls))

(***************************************************************************)
(* C4  Order preservation: the output holds exactly one block per TITLE,   *)
(* PLAIN_TEXT, ABANDON, FIGURE, TABLE or ISOLATE_FORMULA region, in input  *)
(* order, a TextBlock of the region's kind or an AssetBlock; captions and  *)
(* unknown classes add, remove and reorder nothing.                        *)
(***************************************************************************)
C4_OrderPreservation ==
  Assembled =>
    LET kept == Kept(layouts)
    IN  /\ Len(blocks) = Len(kept)
        /\ \A k \in 1..Len(kept) :
             /\ blocks[k].rect = kept[k].rect
             /\ kept[k].cls \in TextClasses =>
                  /\ blocks[k].type = "TextBlock"
                  /\ blocks[k].kind = kept[k].cls
                  /\ blocks[k].texts = AsTexts(kept[k])
             /\ kept[k].cls \in AssetClasses =>
                  /\ blocks[k].type = "AssetBlock"
                  /\ blocks[k].image = <<"clip", kept[k].rect>>

C4_Witness ==
  /\ pc = "yielded"
  /\ Len(layouts) = 4
  /\ layouts[1].cls = "FIGURE_CAPTION"
  /\ layouts[2].cls = "PLAIN_TEXT"
  /\ layouts[3].cls = "UNKNOWN"
  /\ layouts[4].cls = "TABLE"
  /\ Len(blocks) = 2

(***************************************************************************)
(* C1  ABANDON transparency: when a region of a caption's target class is  *)
(* followed by one or more ABANDON regions and then the caption, the       *)
(* caption's fragments are appended to the texts of that region's          *)
(* AssetBlock.                                                             *)
(***************************************************************************)
BehindAbandon(ls, j, k) ==
  /\ ls[k].cls \in CaptionClasses
  /\ ls[j].cls = Target(ls[k].cls)
  /\ j + 1 < k
  /\ \A m \in (j + 1)..(k - 1) : ls[m].cls = "ABANDON"

\* C1: the caption behind the ABANDON regions ends the texts of the asset
C1_AbandonTransparent ==
  JustRead =>
    \A j \in 1..Len(layouts) :
      BehindAbandon(layouts, j, Len(layouts)) =>
        LET asset == store[BlockOf(layouts, j)].block
            n == Len(asset.texts) - Len(LastRead.fragments)
        IN  /\ n >= 0
            /\ SubSeq(asset.texts, n + 1, Len(asset.texts)) = AsTexts(LastRead)

(***************************************************************************)
(* C5  Caption attachment: a caption that immediately follows a region of  *)
(* its target class has its fragments appended, in fragment order, to the  *)
(* end of the texts of that region's AssetBlock; every other block,        *)
(* earlier assets of the same class included, is left as it was.           *)
(***************************************************************************)
C5_CaptionAttachment ==
  [][(/\ pc = "convert"
      /\ pc' = "convert"
      /\ Len(layouts) >= 1
      /\ Len(layouts') = Len(layouts) + 1
      /\ Target(layouts'[Len(layouts')].cls) = LastRead.cls)
     => /\ Len(store) >= 1
        /\ store[Len(store)].block.type = "AssetBlock"
        /\ store[Len(store)].block.rect = LastRead.rect
        /\ store' = [store EXCEPT ![Len(store)].block.texts =
                       @ \o AsTexts(layouts'[Len(layouts')])]]_vars

\* a second caption lands behind the first, on the later of two figures
C5_Witness ==
  /\ JustRead
  /\ Len(layouts) = 4
  /\ layouts[1].cls = "FIGURE"
  /\ layouts[2].cls = "FIGURE"
  /\ layouts[3].cls = "FIGURE_CAPTION"
  /\ layouts[4].cls = "FIGURE_CAPTION"
  /\ store[1].block.texts = <<>>
  /\ Len(store[2].block.texts) = Len(layouts[4].fragments)
  /\ Len(layouts[4].fragments) > 0

(***************************************************************************)
(* C6  Unmatched captions: a caption with no earlier region of its target  *)
(* class, or whose backward search meets a non-ABANDON entry of another    *)
(* class before any entry of the target class, is dropped: the output is   *)
(* the output for the same list without that caption, and the search never *)
(* hands back anything but an AssetBlock.                                  *)
(***************************************************************************)
Unmatched(ls, k) ==
  /\ ls[k].cls \in CaptionClasses
  /\ LET before == {m \in 1..(k - 1) : MakesBlock(ls[m]) /\ ls[m].cls # "ABANDON"}
     IN  \/ before = {}
         \/ \E m \in before :
              /\ \A n \in before : n <= m
              /\ ls[m].cls # Target(ls[k].cls)

\* C6: dropping an unmatched caption from the input leaves the output as it is
C6_UnmatchedDropped ==
  /\ \A k \in 1..Len(store) :
       store[k].cls \in AssetClasses => store[k].block.type = "AssetBlock"
  /\ Assembled =>
       \A k \in 1..Len(layouts) :
         Unmatched(layouts, k) =>
           StoreBlocks(store) = _convert_to_blocks(RemoveAt(layouts, k))

\* FIGURE, PLAIN_TEXT, FIGURE_CAPTION with fragments, and a TABLE directly
\* followed by a FIGURE_CAPTION
C6_Witness ==
  /\ Assembled
  /\ Len(layouts) = 4
  /\ layouts[1].cls = "FIGURE"
  /\ layouts[2].cls = "PLAIN_TEXT"
  /\ layouts[3].cls = "TABLE"
  /\ layouts[4].cls = "FIGURE_CAPTION"
  /\ Len(layouts[4].fragments) > 0
  /\ Unmatched(layouts, 4)
  /\ Len(blocks) = 3
  /\ blocks[1].texts = <<>>

(***************************************************************************)
(* C10  Consecutive captions: an asset region directly followed by a run   *)
(* of captions aiming at its class collects all of them; its texts are the *)
(* captions' fragments in region order and, within a region, in fragment   *)
(* order.                                                                  *)
(***************************************************************************)
\* the run j+1 .. k cannot be made longer
MaximalRun(ls, j, k) ==
  /\ CaptionRun(ls, j, k)
  /\ k < Len(ls) => Target(ls[k + 1].cls) # ls[j].cls

\* C10 as claimed: after assembly the asset's texts are those of the run
C10_RunIsAllAfterAssembly ==
  Assembled =>
    \A j \in 1..Len(layouts) : \A k \in 1..Len(layouts) :
      MaximalRun(layouts, j, k) =>
        store[BlockOf(layouts, j)].block.texts = RunTexts(layouts, j, k)

\* C10 as amended: the asset's texts are those of the run once its last
\* caption is handled, and after assembly they begin with them
C10_ConsecutiveCaptions ==
  /\ JustRead =>
       \A j \in 1..Len(layouts) :
         CaptionRun(layouts, j, Len(layouts)) =>
           /\ BlockOf(layouts, j) = Len(store)
           /\ store[Len(store)].block.rect = layouts[j].rect
           /\ store[Len(store)].block.texts = RunTexts(layouts, j, Len(layouts))
  /\ Assembled =>
       \A j \in 1..Len(layouts) : \A k \in 1..Len(layouts) :
         CaptionRun(layouts, j, k) =>
           IsPrefix(RunTexts(layouts, j, k),
                    store[BlockOf(layouts, j)].block.texts)

\* a table with a caption of two fragments, an empty footnote and a caption
C10_Witness ==
  /\ JustRead
  /\ Len(layouts) = 4
  /\ layouts[1].cls = "TABLE"
  /\ layouts[2].cls = "TABLE_CAPTION"
  /\ layouts[3].cls = "TABLE_FOOTNOTE"
  /\ layouts[4].cls = "TABLE_CAPTION"
  /\ Len(layouts[2].fragments) = 2
  /\ Len(layouts[4].fragments) = 1
  /\ Len(store) = 1
  /\ Len(store[1].block.texts) = 3
  /\ store[1].block.texts[3].content = layouts[4].fragments[1].text

(***************************************************************************)
(* Statistics of a block list, stated over the Texts that count.           *)
(***************************************************************************)
Counts(block) == block.type = "TextBlock" /\ block.kind # "ABANDON"

\* the Texts of the non-ABANDON TextBlocks, in order
RECURSIVE CountedTexts(_, _)
CountedTexts(bs, n) ==
  IF n = 0 THEN <<>>
  ELSE CountedTexts(bs, n - 1) \o (IF Counts(bs[n]) THEN bs[n].texts ELSE <<>>)

RECURSIVE SumHeights(_, _)
SumHeights(ts, n) ==
  IF n = 0 THEN 0 ELSE SumHeights(ts, n - 1) + ts[n].rect.height

CornerXs(ts) ==
  UNION {{ts[n].rect.ltx, ts[n].rect.lbx, ts[n].rect.rtx, ts[n].rect.rbx} :
           n \in 1..Len(ts)}

\* mean * count = sum of heights, x1 least and x2 greatest corner x
IsStatsOf(range, ts) ==
  IF Len(ts) = 0
  THEN /\ range.mean_line_height = [num |-> 0, den |-> 1]
       /\ range.x1 = 0
       /\ range.x2 = 0
  ELSE /\ range.mean_line_height.den > 0
       /\ range.mean_line_height.num * Len(ts) =
            SumHeights(ts, Len(ts)) * range.mean_line_height.den
       /\ range.x1 \in CornerXs(ts)
       /\ range.x2 \in CornerXs(ts)
       /\ \A x \in CornerXs(ts) : range.x1 <= x /\ x <= range.x2
       /\ range.x1 <= range.x2

\* the same list with the blocks that do not count removed
Counted(bs) == SelectSeq(bs, Counts)

\* the same list with the texts of the blocks that do not count emptied
Emptied(bs) ==
  [n \in 1..Len(bs) |->
     IF Counts(bs[n]) THEN bs[n] ELSE [bs[n] EXCEPT !.texts = <<>>]]

(***************************************************************************)
(* C9  Geometry Analyzer scope: _texts_range depends only on the Texts of  *)
(* non-ABANDON TextBlocks.  With at least one such Text it is (sum of      *)
(* their heights / their number, least corner x, greatest corner x) with   *)
(* min_x <= max_x; with none it is (0.0, 0.0, 0.0).  ABANDON blocks and    *)
(* AssetBlock texts, attached captions included, do not change it.         *)
(***************************************************************************)
C9_TextsRangeScope ==
  Assembled =>
    /\ IsStatsOf(page_range, CountedTexts(blocks, Len(blocks)))
    /\ _texts_range(Counted(blocks)) = page_range
    /\ _texts_range(Emptied(blocks)) = page_range

\* an ABANDON block with the leftmost text, a counted block and a figure
\* with an attached caption reaching furthest right
C9_Witness ==
  /\ Assembled
  /\ Len(layouts) = 4
  /\ layouts[1].cls = "ABANDON"
  /\ layouts[2].cls = "TITLE"
  /\ layouts[3].cls = "FIGURE"
  /\ layouts[4].cls = "FIGURE_CAPTION"
  /\ Len(blocks[1].texts) > 0
  /\ Len(blocks[3].texts) > 0
  /\ page_range.x1 > blocks[1].texts[1].rect.ltx
  /\ page_range.x2 < blocks[3].texts[1].rect.rtx
  /\ page_range.mean_line_height.num > 0

(***************************************************************************)
(* Vocabulary of the shape flags.                                          *)
(***************************************************************************)
\* block n went through the flag assignment of extract
Classified(n) ==
  /\ pc \in {"classify", "yielded", "raised"}
  /\ n \in 1..Len(blocks)
  /\ n < bi
  /\ Counts(blocks[n])

\* the flag assignment of the last step was that of block bi - 1
JustClassified == pc \in {"classify", "yielded"} /\ Classified(bi - 1)

FirstLine(block) == block.texts[1].rect

LastLine(block) == block.texts[Len(block.texts)].rect

FlagsOff(block) ==
  ~block.has_paragraph_indentation /\ ~block.last_line_touch_end

\* twice the first line's left midpoint minus x1, twice x2 minus the last
\* line's right midpoint
TwiceFirstDelta(block, range) ==
  FirstLine(block).ltx + FirstLine(block).lbx - 2 * range.x1

TwiceLastDelta(block, range) ==
  2 * range.x2 - (LastLine(block).rtx + LastLine(block).rbx)

(***************************************************************************)
(* C2  Zero qualifying text is not an error: on a page where no Text       *)
(* belongs to a non-ABANDON TextBlock the page-wide _texts_range is        *)
(* (0.0, 0.0, 0.0), extract yields the page without raising, and every     *)
(* TextBlock yielded has both flags false.                                 *)
(***************************************************************************)
NoQualifyingText(ls) ==
  \A n \in 1..Len(ls) :
    ls[n].cls \in {"TITLE", "PLAIN_TEXT"} => Len(ls[n].fragments) = 0

\* C2: a page without qualifying text has a zero page range, does not raise
\* and is yielded with all flags false
C2_ZeroTextNoError ==
  (Assembled /\ NoQualifyingText(layouts)) =>
    /\ page_range = [mean_line_height |-> [num |-> 0, den |-> 1],
                     x1 |-> 0, x2 |-> 0]
    /\ pc # "raised"
    /\ pc = "yielded" =>
         \A n \in 1..Len(blocks) :
           blocks[n].type = "TextBlock" => FlagsOff(blocks[n])

(***************************************************************************)
(* C3  Degenerate mean line height: a classified block whose baseline mean *)
(* line height is 0 has last_line_touch_end false, and its                 *)
(* has_paragraph_indentation is false too.                                 *)
(***************************************************************************)
ZeroMean(block) ==
  Baseline(block, page_range).mean_line_height = [num |-> 0, den |-> 1]

\* C3 as claimed: a baseline mean line height of 0 leaves both flags false
C3_ZeroMeanFlagsOff ==
  \A n \in 1..Len(blocks) :
    (Classified(n) /\ ZeroMean(blocks[n])) => FlagsOff(blocks[n])

\* C3 as amended: with a baseline mean line height of 0 touch-end is false,
\* and indentation is false exactly when the first line's left midpoint lies
\* on the baseline x1
C3_ZeroMean ==
  \A n \in 1..Len(blocks) :
    (Classified(n) /\ ZeroMean(blocks[n])) =>
      /\ ~blocks[n].last_line_touch_end
      /\ blocks[n].has_paragraph_indentation <=>
           TwiceFirstDelta(blocks[n], Baseline(blocks[n], page_range)) > 0

C3_Witness ==
  \E n \in 1..Len(blocks) :
    /\ Classified(n)
    /\ ZeroMean(blocks[n])
    /\ blocks[n].has_paragraph_indentation
    /\ LastLine(blocks[n]).rtx = Baseline(blocks[n], page_range).x2

C8_StrictThresholds ==
  \A n \in 1..Len(blocks) :
    Classified(n) =>
      LET b == Baseline(blocks[n], page_range)
          m == b.mean_line_height
      IN  /\ blocks[n].has_paragraph_indentation <=>
               TwiceFirstDelta(blocks[n], b) * m.den > 2 * m.num
          /\ blocks[n].last_line_touch_end <=>
               TwiceLastDelta(blocks[n], b) * m.den < 2 * m.num

\* both deltas equal a mean line height above 0
C8_Witness ==
  \E n \in 1..Len(blocks) :
    /\ Classified(n)
    /\ LET b == Baseline(blocks[n], page_range)
           m == b.mean_line_height
       IN  /\ m.num > 0
           /\ TwiceFirstDelta(blocks[n], b) * m.den = 2 * m.num
           /\ TwiceLastDelta(blocks[n], b) * m.den = 2 * m.num
    /\ FlagsOff(blocks[n])

====
